---------------------------- MODULE Spec2Model ----------------------------
(***************************************************************************)
(* Caption synchronisation and rendering engine of the `post` tool.        *)
(*                                                                         *)
(* Pipeline: a word store (word-level timestamps) and a grouping file are  *)
(* merged into word groups, the composition is mounted with an fps, and    *)
(* the caption scene is evaluated for requested frames, in any order.      *)
(*                                                                         *)
(* Times are integers in milliseconds; every derived quantity (seconds,    *)
(* progress, opacity, pixels) is an exact rational <<num, den>>, den > 0.  *)
(* IEEE-754 rounding of the JavaScript numbers is not modelled.            *)
(* <<0, 0>> stands for NaN and <<1, 0>> for +Infinity.                     *)
(*                                                                         *)
(* The repository holds three revisions of the caption scene that share    *)
(* the window and karaoke code and differ in the drop-in: CaptionScene.tsx *)
(* (no drop), part_010 (drop when effects are enabled) and part_011 (drop  *)
(* always).  The variable `scene` says which revision is mounted.  A       *)
(* fourth, part_012, is the legacy scene with the per-word karaoke of      *)
(* Word.tsx.                                                               *)
(*                                                                         *)
(* The token scenes are three further machines over their own variables:   *)
(* the focus store of focusSystem.tsx (SpecFocus), the two cameras         *)
(* (SpecCamera) and the segment switch of PersonalTokenScene (SpecSegment).*)
(***************************************************************************)
EXTENDS Integers, Sequences, FiniteSets, TLC

VARIABLES
    phase,      \* "idle" | "failed" | "resolved" | "rendering"
    words,      \* the word store: sequence of [word, start, end]
    grouping,   \* the grouping file: sequence of [indices, text]
    track,      \* merged groups handed to the scene (inputProps.groups)
    warnings,   \* diagnostics of the resolver: set of [kind, first, second]
    fps,        \* useVideoConfig().fps
    scene,      \* revision of the caption scene that is mounted
    frame,      \* useCurrentFrame() of the latest render, -1 before the first
    out,        \* what the latest render produced
    kept,       \* observer: the first render, [frame, out, others], where
                \* others says that another frame was requested since
    store,      \* the focus store: [rootElement, rootBounds, areas, version,
                \* notified], areas being key -> [descriptor, node, observer,
                \* bounds] and notified the calls its listener received
    lastCall,   \* observer: the latest call on the store, [op, key, known]
    history,    \* observer: key -> what its component has called so far,
                \* for the keys whose component has called anything
    camera,     \* the camera that is mounted: [rig, regions] and, for the
                \* rig, [cardBounds, focusProgress], next to what it computed,
                \* [x, y, scale]
    token       \* PersonalTokenScene: [frame, displaySegment] of the latest
                \* render

captionVars ==
    <<phase, words, grouping, track, warnings, fps, scene, frame, out, kept>>
focusVars == <<store, lastCall, history>>
tokenVars == <<focusVars, camera, token>>

vars == <<captionVars, tokenVars>>

---------------------------------------------------------------------------
(* Bounds of the model *)

\* word times are multiples of 100 ms in 0 .. MaxTick * 100
MaxTick == 5

\* number of words in the word store
NumWords == 2

\* size of a grouping file: number of groups plus number of indices
MaxSize == 4

\* frame rates the composition is mounted with
FpsValues == {6, 8}

Scenes == {"CaptionScene", "part_010", "part_011"}

\* the revisions of the scene, the first one with its own Word, included
Revisions == Scenes \cup {"part_012"}

\* frame rates down to the lowest
AllFps == FpsValues \cup {1, 2}

---------------------------------------------------------------------------
(* Exact rational arithmetic *)

Abs(x) == IF x < 0 THEN -x ELSE x

RECURSIVE Gcd(_, _)
Gcd(a, b) == IF b = 0 THEN a ELSE Gcd(b, a % b)

RNorm(q) ==
    IF q[2] = 0 THEN q
    ELSE LET g == Gcd(Abs(q[1]), Abs(q[2]))
             s == IF q[2] < 0 THEN -1 ELSE 1
         IN  <<s * (q[1] \div g), s * (q[2] \div g)>>

R(n, d) == RNorm(<<n, d>>)
RInt(n) == <<n, 1>>
Zero == <<0, 1>>
One == <<1, 1>>
NaN == <<0, 0>>
Infinity == <<1, 0>>

IsNaN(q) == q = NaN
RAdd(a, b) == R(a[1] * b[2] + b[1] * a[2], a[2] * b[2])
RSub(a, b) == R(a[1] * b[2] - b[1] * a[2], a[2] * b[2])
RMul(a, b) == R(a[1] * b[1], a[2] * b[2])
RNeg(a) == <<-a[1], a[2]>>
RLt(a, b) == a[1] * b[2] < b[1] * a[2]
RLe(a, b) == a[1] * b[2] <= b[1] * a[2]
RAbs(a) == <<Abs(a[1]), a[2]>>

\* JavaScript division: x / 0 is NaN for x = 0 and an infinity otherwise
RDiv(a, b) ==
    IF b[1] = 0
    THEN (IF a[1] = 0 THEN NaN ELSE Infinity)
    ELSE R(a[1] * b[2], a[2] * b[1])

\* Math.min(1, x) and Math.max(0, x); NaN propagates, Infinity is above 1
Min1(x) == IF IsNaN(x) THEN NaN ELSE IF x = Infinity THEN One
           ELSE IF RLt(x, One) THEN x ELSE One
Max0(x) == IF IsNaN(x) THEN NaN ELSE IF RLt(x, Zero) THEN Zero ELSE x

\* Math.floor(a / b) for b > 0
Floor(a, b) == a \div b

---------------------------------------------------------------------------
(* Program constants *)

MIN_WORD_DURATION_FOR_KARAOKE_MS == 500
DROP_DISTANCE == 6
ANIMATION_DURATION_MS == 400
VideoHeight == 1080

\* part_012 and the Word it mounts (Word.tsx)
LEGACY_DROP_DISTANCE == 8
LEGACY_ANIMATION_DURATION_MS == 300
KARAOKE_FADE_BACK_MS == 80
INACTIVE_OPACITY == R(7, 10)

LIGHT_WIDTH == R(7, 10)
UNREACHED_OPACITY == R(35, 100)
ACTIVE_OPACITY == One
REACHED_OPACITY == One

---------------------------------------------------------------------------
(* remotion: interpolate over one segment, and the easing used by the drop *)

\* Easing.out(Easing.cubic): t -> 1 - (1 - t)^3
EaseOutCubic(t) ==
    LET u == RSub(One, t) IN RSub(One, RMul(u, RMul(u, u)))

\* the easing option of interpolate; without one the segment is linear
Ease(easing, t) == IF easing = "out(cubic)" THEN EaseOutCubic(t) ELSE t

\* interpolate(input, [x0, x1], [y0, y1], {extrapolateLeft, extrapolateRight,
\* easing}); an extrapolation that is not "clamp" extends the segment
Interpolate(input, x0, x1, y0, y1, clampLeft, clampRight, easing) ==
    IF IsNaN(input) THEN NaN
    ELSE LET x == IF clampLeft /\ RLt(input, x0) THEN x0
                  ELSE IF clampRight /\ RLt(x1, input) THEN x1
                  ELSE input
             t == RDiv(RSub(x, x0), RSub(x1, x0))
         IN  RAdd(y0, RMul(Ease(easing, t), RSub(y1, y0)))

---------------------------------------------------------------------------
(* Inputs: word stores and grouping files *)

Ticks == 0 .. MaxTick

\* a word store: start < end for every word, sorted, no two words overlap
StoreShapes ==
    { w \in [1 .. NumWords -> Ticks \X Ticks] :
        \A i \in 1 .. NumWords :
            /\ w[i][1] < w[i][2]
            /\ i > 1 => w[i - 1][2] <= w[i][1] }

Stores ==
    { [i \in 1 .. NumWords |->
          [word |-> i - 1, start |-> 100 * w[i][1], end |-> 100 * w[i][2]]] :
      w \in StoreShapes }

\* indices a grouping file may hold: the valid ones, one negative, one too large
IndexValues == -1 .. NumWords

SeqsUpTo(n) == UNION { [1 .. k -> IndexValues] : k \in 0 .. n }

\* the text of a group, a preview for the human editor: 0 is the preview
\* the tool generates from the words, 1 a preview somebody edited by hand
Texts == {0, 1}

RECURSIVE GroupingsOfSize(_, _)
GroupingsOfSize(s, texts) ==
    IF s <= 0 THEN {<<>>}
    ELSE {<<>>} \cup
         UNION { { <<[indices |-> g, text |-> t]>> \o rest :
                     rest \in GroupingsOfSize(s - 1 - Len(g), texts),
                     t \in texts } :
                 g \in SeqsUpTo(s - 1) }

\* grouping files whose previews are the generated ones
Groupings == GroupingsOfSize(MaxSize, {0})

\* grouping files whose previews may have been edited
EditedGroupings == GroupingsOfSize(MaxSize, Texts)

\* PREVIEW_DATA, first line: Great (0), ideas (1), change (2)
PreviewWords ==
    << [word |-> 0, start |-> 140, end |-> 320],
       [word |-> 1, start |-> 320, end |-> 620],
       [word |-> 2, start |-> 620, end |-> 1060] >>

\* PREVIEW_DATA, its first three lines: the words, in milliseconds
PreviewStore ==
    PreviewWords \o
    << [word |-> 3, start |-> 1060, end |-> 1460],
       [word |-> 4, start |-> 1460, end |-> 1820],
       [word |-> 5, start |-> 2020, end |-> 2140],
       [word |-> 6, start |-> 2140, end |-> 2620],
       [word |-> 7, start |-> 2620, end |-> 3120],
       [word |-> 8, start |-> 3120, end |-> 3560] >>

\* the grouping of PREVIEW_DATA: lines of 3, 2 and 4 words
PreviewGrouping ==
    << [indices |-> <<0, 1, 2>>, text |-> 0],
       [indices |-> <<3, 4>>, text |-> 0],
       [indices |-> <<5, 6, 7, 8>>, text |-> 0] >>

\* frame rates the preview is mounted with
PreviewFps == {24, 30}

---------------------------------------------------------------------------
(* Grouping resolver: validation, merge, overlap diagnostics *)

\* a validation that lets an index repeat inside a group
ValidGroupNonDecreasing(w, g) ==
    /\ Len(g.indices) > 0
    /\ \A k \in 1 .. Len(g.indices) :
          /\ g.indices[k] >= 0
          /\ g.indices[k] < Len(w)
          /\ k > 1 => g.indices[k - 1] <= g.indices[k]

\* every index in range, strictly increasing inside a group, no empty group
ValidGroup(w, g) ==
    /\ Len(g.indices) > 0
    /\ \A k \in 1 .. Len(g.indices) :
          /\ g.indices[k] >= 0
          /\ g.indices[k] < Len(w)
          /\ k > 1 => g.indices[k - 1] < g.indices[k]

ValidGrouping(w, gs) == \A i \in 1 .. Len(gs) : ValidGroup(w, gs[i])


\* a merge that returns the groups last first
MergeReversed(w, gs) ==
    [i \in 1 .. Len(gs) |->
        [k \in 1 .. Len(gs[Len(gs) + 1 - i].indices) |->
            w[gs[Len(gs) + 1 - i].indices[k] + 1]]]

\* a merge that shows the preview text of the group in place of each word
MergeShowingText(w, gs) ==
    [i \in 1 .. Len(gs) |->
        [k \in 1 .. Len(gs[i].indices) |->
            [w[gs[i].indices[k] + 1] EXCEPT !.word = gs[i].text]]]

\* merged = [[words[idx] for idx in group['indices']] for group in groupings]
Merge(w, gs) ==
    [i \in 1 .. Len(gs) |->
        [k \in 1 .. Len(gs[i].indices) |-> w[gs[i].indices[k] + 1]]]

\* two groups whose time windows [start of first word, end of last word) meet
Overlaps(groups) ==
    { [kind |-> "OverlapWarning", first |-> i, second |-> j] :
        <<i, j>> \in
          { p \in (1 .. Len(groups)) \X (1 .. Len(groups)) :
              /\ p[1] < p[2]
              /\ groups[p[1]][1].start < groups[p[2]][Len(groups[p[2]])].end
              /\ groups[p[2]][1].start < groups[p[1]][Len(groups[p[1]])].end } }

\* a resolver that reports the failure and keeps the groups before it
ResolveKeepingPrefix(w, gs) ==
    IF ValidGrouping(w, gs)
    THEN [ok |-> TRUE, error |-> "none", track |-> Merge(w, gs),
          warnings |-> Overlaps(Merge(w, gs))]
    ELSE LET n == CHOOSE m \in 0 .. Len(gs) :
                    /\ \A i \in 1 .. m : ValidGroup(w, gs[i])
                    /\ m < Len(gs) => ~ValidGroup(w, gs[m + 1])
         IN  [ok |-> FALSE, error |-> "InvalidGrouping",
              track |-> Merge(w, SubSeq(gs, 1, n)), warnings |-> {}]

\* resolve(words, grouping): all of the track, or InvalidGrouping and no track
ResolveGrouping(w, gs) ==
    IF ValidGrouping(w, gs)
    THEN [ok |-> TRUE, error |-> "none", track |-> Merge(w, gs),
          warnings |-> Overlaps(Merge(w, gs))]
    ELSE [ok |-> FALSE, error |-> "InvalidGrouping", track |-> <<>>,
          warnings |-> {}]

---------------------------------------------------------------------------
(* Caption scene: line windows *)

\* Math.round in place of Math.floor
ToFrameRounded(ms, r) == Floor(ms * r + 500, 1000)

\* Math.floor(seconds * fps), seconds given in milliseconds
ToFrame(ms, r) == Floor(ms * r, 1000)

\* a window that opens a frame before the first word starts
StartFrameEarly(wordGroup, r) == ToFrame(wordGroup[1].start, r) - 1

StartFrame(wordGroup, r) == ToFrame(wordGroup[1].start, r)

\* a window that closes at the frame it opens
EndFrameAtStart(wordGroup, r) == ToFrame(wordGroup[1].start, r)

\* the end of the window rounded up instead of down
EndFrameCeil(wordGroup, r) ==
    Floor(wordGroup[Len(wordGroup)].end * r + 999, 1000)

EndFrame(wordGroup, r) == ToFrame(wordGroup[Len(wordGroup)].end, r)

LineDurationMs(wordGroup) == wordGroup[Len(wordGroup)].end - wordGroup[1].start

EnableEffects(wordGroup) ==
    LineDurationMs(wordGroup) >= MIN_WORD_DURATION_FOR_KARAOKE_MS

\* reading a second word of every group: throws on a one-word group too
ProcessThrowsShort(groups) == \E i \in 1 .. Len(groups) : Len(groups[i]) < 2

\* groups.map(...): wordGroup[0].start throws a TypeError on an empty group
ProcessThrows(groups) == \E i \in 1 .. Len(groups) : Len(groups[i]) = 0

ProcessGroup(wordGroup, r) ==
    [words |-> wordGroup,
     lineStart |-> wordGroup[1].start,
     lineEnd |-> wordGroup[Len(wordGroup)].end,
     enableEffects |-> EnableEffects(wordGroup),
     startFrame |-> StartFrame(wordGroup, r),
     endFrame |-> EndFrame(wordGroup, r)]

\* a window that never closes: the end of the line is not looked at
IsActiveNoEnd(f, startFrame, endFrame) == ~(f < startFrame)

\* a window that is closed at its end
IsActiveInclusive(f, startFrame, endFrame) == ~(f < startFrame \/ f > endFrame)

\* the negation of: frame < startFrame || frame >= endFrame
IsActive(f, startFrame, endFrame) == ~(f < startFrame \/ f >= endFrame)

MarginV == Floor(VideoHeight * 27, 100)
BaselineY == VideoHeight - MarginV

---------------------------------------------------------------------------
(* Drop-in of a line (part_010, part_011) *)

AnimationDurationFrames(r) == Floor(ANIMATION_DURATION_MS * r, 1000)

\* a drop-in that starts over every animationDurationFrames frames
AnimationProgressLooping(f, startFrame, r) ==
    Min1(RDiv(RInt((f - startFrame) % AnimationDurationFrames(r)),
              RInt(AnimationDurationFrames(r))))

AnimationProgress(f, startFrame, r) ==
    Min1(RDiv(RInt(f - startFrame), RInt(AnimationDurationFrames(r))))

DropY(f, startFrame, r) ==
    Interpolate(AnimationProgress(f, startFrame, r), Zero, One,
                RInt(BaselineY - DROP_DISTANCE), RInt(BaselineY),
                FALSE, TRUE, "out(cubic)")

\* part_012: margin of 15%, 8 px in floor(0.3 * fps) frames, no easing
LegacyBaselineY == VideoHeight - Floor(VideoHeight * 15, 100)

LegacyDropY(f, startFrame, r) ==
    Interpolate(Min1(RDiv(RInt(f - startFrame),
                          RInt(Floor(LEGACY_ANIMATION_DURATION_MS * r, 1000)))),
                Zero, One,
                RInt(LegacyBaselineY - LEGACY_DROP_DISTANCE),
                RInt(LegacyBaselineY),
                FALSE, TRUE, "linear")

CurrentY(sc, f, group, r) ==
    CASE sc = "CaptionScene" -> RInt(BaselineY)
      [] sc = "part_010" ->
            IF group.enableEffects THEN DropY(f, group.startFrame, r)
            ELSE RInt(BaselineY)
      [] sc = "part_011" -> DropY(f, group.startFrame, r)
      [] sc = "part_012" -> LegacyDropY(f, group.startFrame, r)

---------------------------------------------------------------------------
(* Word: the karaoke light sweep *)

\* positions counted from the right end of the line
WordPositionRatioReversed(wordIndex, wordCount) ==
    IF wordCount > 1 THEN R(2 * (wordCount - 1 - wordIndex) + 1, 2 * wordCount)
    ELSE R(1, 2)

WordPositionRatio(wordIndex, wordCount) ==
    IF wordCount > 1 THEN R(2 * wordIndex + 1, 2 * wordCount) ELSE R(1, 2)

\* a sweep that remembers how far it got: it never moves back when an
\* earlier frame is requested after a later one
TimeProgressSticky(f, lineStartFrame, lineEndTime, r) ==
    LET lineStartTime == R(lineStartFrame, r)
        lineDuration == RSub(R(lineEndTime, 1000), lineStartTime)
        currentTime == R(IF frame > f THEN frame ELSE f, r)
    IN  Max0(Min1(RDiv(RSub(currentTime, lineStartTime), lineDuration)))

TimeProgress(f, lineStartFrame, lineEndTime, r) ==
    LET lineStartTime == R(lineStartFrame, r)
        lineDuration == RSub(R(lineEndTime, 1000), lineStartTime)
        currentTime == R(f, r)
    IN  Max0(Min1(RDiv(RSub(currentTime, lineStartTime), lineDuration)))

\* a light that stops on the right edge of the line, not beyond it
LightPositionToEdge(timeProgress) ==
    Interpolate(timeProgress, Zero, One, RNeg(LIGHT_WIDTH), One,
                FALSE, TRUE, "linear")

\* a light that starts on the left edge of the line, not outside it
LightPositionFromEdge(timeProgress) ==
    Interpolate(timeProgress, Zero, One, Zero, RAdd(One, LIGHT_WIDTH),
                FALSE, TRUE, "linear")

LightPosition(timeProgress) ==
    Interpolate(timeProgress, Zero, One,
                RNeg(LIGHT_WIDTH), RAdd(One, LIGHT_WIDTH),
                FALSE, TRUE, "linear")

\* a light without a soft edge: a word is lit or it is not
BandOpacityHard(distanceFromLight) ==
    IF RLe(distanceFromLight, Zero) THEN REACHED_OPACITY ELSE UNREACHED_OPACITY

\* a light after which the words go back to the unreached opacity
BandOpacityFadingBack(distanceFromLight) ==
    IF RLt(distanceFromLight, RNeg(LIGHT_WIDTH)) THEN UNREACHED_OPACITY
    ELSE IF RLt(distanceFromLight, Zero)
    THEN Interpolate(distanceFromLight, RNeg(LIGHT_WIDTH), Zero,
                     UNREACHED_OPACITY, ACTIVE_OPACITY, FALSE, TRUE, "linear")
    ELSE IF RLe(distanceFromLight, LIGHT_WIDTH)
    THEN Interpolate(distanceFromLight, Zero, LIGHT_WIDTH,
                     ACTIVE_OPACITY, UNREACHED_OPACITY, TRUE, FALSE, "linear")
    ELSE UNREACHED_OPACITY

BandOpacity(distanceFromLight) ==
    IF RLt(distanceFromLight, RNeg(LIGHT_WIDTH)) THEN REACHED_OPACITY
    ELSE IF RLe(RAbs(distanceFromLight), LIGHT_WIDTH)
    THEN IF RLt(distanceFromLight, Zero)
         THEN Interpolate(distanceFromLight, RNeg(LIGHT_WIDTH), Zero,
                          REACHED_OPACITY, ACTIVE_OPACITY, FALSE, TRUE, "linear")
         ELSE Interpolate(distanceFromLight, Zero, LIGHT_WIDTH,
                          ACTIVE_OPACITY, UNREACHED_OPACITY, TRUE, FALSE, "linear")
    ELSE UNREACHED_OPACITY


\* a sweep that dims a line to a quarter before the light comes
WordOpacityDimmed(f, lineStartFrame, isKaraokeEnabled, wordPositionRatio, lineEndTime, r) ==
    IF ~isKaraokeEnabled THEN One
    ELSE LET opacity ==
               BandOpacity(RSub(wordPositionRatio,
                   LightPosition(TimeProgress(f, lineStartFrame, lineEndTime, r))))
         IN  IF opacity = UNREACHED_OPACITY THEN R(1, 4) ELSE opacity

\* a span without an opacity style is drawn at the CSS default, 1
WordOpacity(f, lineStartFrame, isKaraokeEnabled, wordPositionRatio, lineEndTime, r) ==
    IF ~isKaraokeEnabled THEN One
    ELSE BandOpacity(RSub(wordPositionRatio,
             LightPosition(TimeProgress(f, lineStartFrame, lineEndTime, r))))

---------------------------------------------------------------------------
(* Word.tsx: the per-word karaoke of part_012 *)

\* Math.max(1, n)
AtLeast1(n) == IF n < 1 THEN 1 ELSE n

\* a word fades up to 1.0 while it is spoken and back to 0.7 in the 80 ms
\* after it; relativeFrame and the relative word frames are all counted
\* from lineStartFrame, so they compare as the absolute ones do
LegacyWordOpacity(f, word, isKaraokeEnabled, r) ==
    LET wordStartFrame == ToFrame(word.start, r)
        wordEndFrame == ToFrame(word.end, r)
        fadeBackEndFrame == ToFrame(word.end + KARAOKE_FADE_BACK_MS, r)
    IN  IF ~isKaraokeEnabled THEN ACTIVE_OPACITY
        ELSE IF f >= wordStartFrame /\ f < wordEndFrame
        THEN Interpolate(R(f - wordStartFrame,
                           AtLeast1(wordEndFrame - wordStartFrame)),
                         Zero, One, INACTIVE_OPACITY, ACTIVE_OPACITY,
                         FALSE, TRUE, "linear")
        ELSE IF f >= wordEndFrame /\ f < fadeBackEndFrame
        THEN Interpolate(R(f - wordEndFrame,
                           AtLeast1(fadeBackEndFrame - wordEndFrame)),
                         Zero, One, ACTIVE_OPACITY, INACTIVE_OPACITY,
                         FALSE, TRUE, "linear")
        ELSE INACTIVE_OPACITY

---------------------------------------------------------------------------
(* Caption scene: one frame *)

NoLine == [drawn |-> FALSE, key |-> <<0, 0>>, top |-> Zero, words |-> <<>>]

RenderLine(sc, f, group, groupIndex, r) ==
    IF ~IsActive(f, group.startFrame, group.endFrame) THEN NoLine
    ELSE [drawn |-> TRUE,
          key |-> <<groupIndex, group.startFrame>>,
          top |-> CurrentY(sc, f, group, r),
          words |->
            [k \in 1 .. Len(group.words) |->
               [word |-> group.words[k].word,
                opacity |->
                  IF sc = "part_012"
                  THEN LegacyWordOpacity(f, group.words[k],
                                         group.enableEffects, r)
                  ELSE WordOpacity(f, group.startFrame, group.enableEffects,
                                   WordPositionRatio(k - 1, Len(group.words)),
                                   group.lineEnd, r)]]]

Blank == [error |-> "none", lines |-> <<>>]

RenderFrame(sc, groups, r, f) ==
    IF ProcessThrows(groups) THEN [error |-> "TypeError", lines |-> <<>>]
    ELSE [error |-> "none",
          lines |-> [i \in 1 .. Len(groups) |->
                       RenderLine(sc, f, ProcessGroup(groups[i], r), i - 1, r)]]

\* inputProps.durationInFrames: the video ends on the frame after the last
\* caption line has ended, so that frame = endFrame is a frame of every line
DurationInFrames(groups, r) ==
    IF groups = <<>> THEN 1
    ELSE 1 + CHOOSE m \in { EndFrame(groups[i], r) : i \in 1 .. Len(groups) } :
                 \A i \in 1 .. Len(groups) : EndFrame(groups[i], r) <= m

---------------------------------------------------------------------------
(* token/focus/focusSystem.tsx: the focus store                            *)
(*                                                                         *)
(* Components register focus areas under a key; the store keeps, for each  *)
(* area, its descriptor, its DOM node, the ResizeObserver on the node and  *)
(* the node's bounds relative to the root.  Every change bumps `version`   *)
(* and calls the listeners.                                                *)

\* number of notifications the model follows a store for
MaxVersion == 4

Keys == {"header", "bio"}
Nodes == {"div1", "div2"}
NullNode == "null"
RootNode == "root"
NullRect == [null |-> TRUE]

\* a descriptor is told apart by its domain
Descriptors == {"Header", "Bio"}

\* the layout: clientWidth and clientHeight of the root, and each node's
\* getBoundingClientRect relative to the root's
RootClient == [x |-> 0, y |-> 0, width |-> 400, height |-> 300]
NodeRect(node) ==
    IF node = "div1" THEN [x |-> 20, y |-> 10, width |-> 360, height |-> 60]
    ELSE [x |-> 20, y |-> 90, width |-> 170, height |-> 120]

areRectsEqual(a, b) ==
    IF a = NullRect /\ b = NullRect THEN TRUE
    ELSE IF a = NullRect \/ b = NullRect THEN FALSE
    ELSE a.x = b.x /\ a.y = b.y /\ a.width = b.width /\ a.height = b.height

\* createFocusStore: the store after construction
NewStore ==
    [rootElement |-> NullNode, rootBounds |-> NullRect, areas |-> <<>>,
     version |-> 0, notified |-> 0]

\* notify: version += 1, then every listener is called
notify(s) == [s EXCEPT !.version = @ + 1, !.notified = @ + 1]

\* what measureRootBounds finds for a root element
MeasuredRoot(element) ==
    IF element = NullNode THEN NullRect ELSE RootClient

setRootElement(s, node) ==
    LET next == MeasuredRoot(node)
        t == [s EXCEPT !.rootElement = node, !.rootBounds = next]
    IN  IF areRectsEqual(s.rootBounds, next) THEN t ELSE notify(t)

\* ensureArea: the descriptor of an existing area is replaced, a new area
\* starts without node, observer and bounds
ensureArea(s, key, descriptor) ==
    IF key \in DOMAIN s.areas
    THEN [s EXCEPT !.areas[key].descriptor = descriptor]
    ELSE [s EXCEPT !.areas =
            [k \in DOMAIN s.areas \cup {key} |->
                IF k = key
                THEN [descriptor |-> descriptor, node |-> NullNode,
                      observer |-> FALSE, bounds |-> NullRect]
                ELSE s.areas[k]]]

upsertDescriptor(s, key, descriptor) == notify(ensureArea(s, key, descriptor))

updateDescriptor(s, key, descriptor) == notify(ensureArea(s, key, descriptor))

\* what updateBounds measures for an area holding `node`
MeasuredBounds(node, root) ==
    IF node = NullNode \/ root = NullNode THEN NullRect ELSE NodeRect(node)

updateBounds(s, key) ==
    IF key \notin DOMAIN s.areas THEN s
    ELSE LET next == MeasuredBounds(s.areas[key].node, s.rootElement)
         IN  IF areRectsEqual(s.areas[key].bounds, next) THEN s
             ELSE notify([s EXCEPT !.areas[key].bounds = next])

\* setNode that registers nothing for an unknown key but still tells the
\* listeners
setNodeNotifying(s, key, node) ==
    IF key \notin DOMAIN s.areas THEN notify(s)
    ELSE updateBounds([s EXCEPT !.areas[key].node = node,
                                !.areas[key].observer = (node # NullNode)],
                      key)

setNode(s, key, node) ==
    IF key \notin DOMAIN s.areas THEN s
    ELSE IF s.areas[key].node = node /\ node # NullNode THEN s
    ELSE LET t == [s EXCEPT !.areas[key].node = node,
                            !.areas[key].observer = (node # NullNode)]
         IN  IF node = NullNode
             THEN (IF t.areas[key].bounds # NullRect
                   THEN notify([t EXCEPT !.areas[key].bounds = NullRect])
                   ELSE t)
             ELSE updateBounds(t, key)

removeArea(s, key) ==
    IF key \notin DOMAIN s.areas THEN s
    ELSE notify([s EXCEPT !.areas =
                    [k \in DOMAIN s.areas \ {key} |-> s.areas[k]]])

\* what a component has called for its key since the area was last removed:
\* the node it attached, if any, and whether it registered a descriptor
NoHistory == [node |-> NullNode, upsert |-> FALSE]

HistoryOf(key) == IF key \in DOMAIN history THEN history[key] ELSE NoHistory

Remembered(key, h) ==
    IF h = NoHistory
    THEN [k \in DOMAIN history \ {key} |-> history[k]]
    ELSE [k \in DOMAIN history \cup {key} |->
            IF k = key THEN h ELSE history[k]]

---------------------------------------------------------------------------
(* token/focus: the two cameras.  CameraView takes plain rectangles and    *)
(* the size of the video; FocusCameraRig takes the snapshot built from the *)
(* focus store and the progress of the focus animation.                    *)

\* number of regions handed to a camera
MaxRegions == 3

VideoWidth == 1920
CAMERA_SCALE_DELTA == R(8, 100)

\* the rectangles a region is drawn from: the two measured nodes and the
\* header of the README's example
CameraRegions ==
    {NodeRect(n) : n \in Nodes} \cup
    {[x |-> 100, y |-> 50, width |-> 800, height |-> 120]}

RegionLists == UNION { [1 .. k -> CameraRegions] : k \in 0 .. MaxRegions }

ProgressValues == {Zero, R(1, 2), One}

\* x + width / 2 and y + height / 2
CenterX(rect) == RAdd(RInt(rect.x), R(rect.width, 2))
CenterY(rect) == RAdd(RInt(rect.y), R(rect.height, 2))

\* Number.prototype.toFixed(3): the nearest multiple of 1/1000, a tie going
\* away from zero
ToFixed3(v) ==
    LET a == RAbs(v)
        n == Floor(2 * 1000 * a[1] + a[2], 2 * a[2])
    IN  IF RLt(v, Zero) THEN R(-n, 1000) ELSE R(n, 1000)

\* CameraView that centres on the first region whenever there is one
CameraViewOnFirst(regs, videoWidth, videoHeight) ==
    IF Len(regs) >= 1
    THEN [x |-> RSub(R(videoWidth, 2), CenterX(regs[1])),
          y |-> RSub(R(videoHeight, 2), CenterY(regs[1])),
          scale |-> One]
    ELSE [x |-> Zero, y |-> Zero, scale |-> One]

\* CameraView: targetX and targetY, the values its springs run to
CameraView(regs, videoWidth, videoHeight) ==
    LET shouldCenter == Len(regs) = 1
    IN  IF shouldCenter
        THEN [x |-> RSub(R(videoWidth, 2), CenterX(regs[1])),
              y |-> RSub(R(videoHeight, 2), CenterY(regs[1])),
              scale |-> One]
        ELSE [x |-> Zero, y |-> Zero, scale |-> One]

\* FocusCameraRig: the translate3d and scale it writes; a snapshot without
\* regions is null
FocusCameraRig(regs, bounds, progress) ==
    IF Len(regs) = 1 /\ bounds # NullRect /\ RLt(Zero, progress)
    THEN LET cardCenterX == R(bounds.width, 2)
             cardCenterY == R(bounds.height, 2)
         IN  [x |-> ToFixed3(RMul(RSub(cardCenterX, CenterX(regs[1])), progress)),
              y |-> ToFixed3(RMul(RSub(cardCenterY, CenterY(regs[1])), progress)),
              scale |-> ToFixed3(RAdd(One, RMul(CAMERA_SCALE_DELTA, progress)))]
    ELSE [x |-> Zero, y |-> Zero, scale |-> One]

\* no camera is mounted
NoCamera == [rig |-> "none"]

---------------------------------------------------------------------------
(* token: PersonalTokenScene and the segment control                       *)
(*                                                                         *)
(* PersonalTokenScene computes the progress of the switch from Holders to  *)
(* Holdings and hands currentSegment and segmentAnimation to TokenScene,   *)
(* which hands them through TokenCard to SegmentControl.  The TokenScene   *)
(* and TokenCard of TokenScene.tsx and TokenCard.tsx are of the revision   *)
(* before SegmentControl took an animation; the ones that pass it on are   *)
(* modelled as passing both props unchanged.                               *)

TOKEN_APPEAR_DELAY_FRAMES == 12
TOKEN_APPEAR_DURATION_FRAMES == 45
TOKEN_EXPAND_DELAY_FRAMES ==
    TOKEN_APPEAR_DELAY_FRAMES + TOKEN_APPEAR_DURATION_FRAMES + 12
TOKEN_EXPAND_DURATION_FRAMES == 48
SEGMENT_SWITCH_START_FRAME ==
    TOKEN_EXPAND_DELAY_FRAMES + TOKEN_EXPAND_DURATION_FRAMES + 12
SEGMENT_SWITCH_DURATION_FRAMES == 36

\* durationInFrames of the PersonalTokenScene composition
TokenDurationInFrames == 210

Holders == "holders"
Holdings == "holdings"
NoAnimation == [undefined |-> TRUE]

interpolateSegmentSwitch(f) ==
    Interpolate(RInt(f), RInt(SEGMENT_SWITCH_START_FRAME),
                RInt(SEGMENT_SWITCH_START_FRAME + SEGMENT_SWITCH_DURATION_FRAMES),
                Zero, One, TRUE, TRUE, "linear")

resolveSegmentAnimation(progress) ==
    IF RLe(progress, Zero) \/ RLe(One, progress)
    THEN NoAnimation
    ELSE [from |-> Holders, to |-> Holdings, progress |-> progress]

\* currentSegment of PersonalTokenScene
CurrentSegment(progress) ==
    IF RLe(One, progress) THEN Holdings ELSE Holders

\* getDisplaySegment that falls back to the segment the animation started
\* from when there is no animation
getDisplaySegmentFromStart(currentSegment, animation) ==
    IF animation = NoAnimation THEN Holders
    ELSE IF RLt(animation.progress, R(1, 2)) THEN animation.from
    ELSE animation.to

\* SegmentControl: the option it marks active
getDisplaySegment(currentSegment, animation) ==
    IF animation = NoAnimation THEN currentSegment
    ELSE IF RLt(animation.progress, R(1, 2)) THEN animation.from
    ELSE animation.to

\* TokenScene and TokenCard down to SegmentControl: both props are handed on
TokenCard(currentSegment, segmentAnimation) ==
    getDisplaySegment(currentSegment, segmentAnimation)

PersonalTokenScene(f) ==
    LET segmentSwitchProgress == interpolateSegmentSwitch(f)
    IN  TokenCard(CurrentSegment(segmentSwitchProgress),
                  resolveSegmentAnimation(segmentSwitchProgress))

---------------------------------------------------------------------------
(* The pipeline *)

Init ==
    /\ phase = "idle"
    /\ words = <<>>
    /\ grouping = <<>>
    /\ track = <<>>
    /\ warnings = {}
    /\ fps = 0
    /\ scene = "none"
    /\ frame = -1
    /\ out = Blank
    /\ kept = {}
    /\ store = NewStore
    /\ lastCall = [op |-> "none"]
    /\ history = <<>>
    /\ camera = NoCamera
    /\ token = [frame |-> -1, displaySegment |-> Holders]

\* load the word store and the grouping file and merge them
Resolve ==
    /\ phase = "idle"
    /\ \E w \in Stores, gs \in Groupings :
          /\ words' = w
          /\ grouping' = gs
          /\ LET res == ResolveGrouping(w, gs)
             IN  /\ phase' = IF res.ok THEN "resolved" ELSE "failed"
                 /\ track' = res.track
                 /\ warnings' = res.warnings
    /\ UNCHANGED <<fps, scene, frame, out, kept>>
    /\ UNCHANGED tokenVars

\* mount the composition with the merged groups as inputProps
Compose ==
    /\ phase = "resolved"
    /\ phase' = "rendering"
    /\ \E r \in FpsValues, sc \in Scenes :
          /\ fps' = r
          /\ scene' = sc
    /\ UNCHANGED <<words, grouping, track, warnings, frame, out, kept>>
    /\ UNCHANGED tokenVars

\* evaluate the scene for one frame; frames are requested in any order
Render ==
    /\ phase = "rendering"
    /\ \E f \in 0 .. DurationInFrames(track, fps) - 1 :
          /\ frame' = f
          /\ out' = RenderFrame(scene, track, fps, f)
    /\ UNCHANGED <<phase, words, grouping, track, warnings, fps, scene, kept>>
    /\ UNCHANGED tokenVars

\* the same render, with the observer remembering the first render it sees
RenderObserved ==
    /\ phase = "rendering"
    /\ \E f \in 0 .. DurationInFrames(track, fps) - 1 :
          /\ frame' = f
          /\ out' = RenderFrame(scene, track, fps, f)
          /\ kept' = IF kept = {}
                     THEN {[frame |-> f, out |-> out', others |-> FALSE]}
                     ELSE {[k EXCEPT !.others = k.others \/ f # k.frame] :
                             k \in kept}
    /\ UNCHANGED <<phase, words, grouping, track, warnings, fps, scene>>
    /\ UNCHANGED tokenVars

\* the same load and merge, of a grouping file a human may have edited
ResolveEdited ==
    /\ phase = "idle"
    /\ \E w \in Stores, gs \in EditedGroupings :
          /\ words' = w
          /\ grouping' = gs
          /\ LET res == ResolveGrouping(w, gs)
             IN  /\ phase' = IF res.ok THEN "resolved" ELSE "failed"
                 /\ track' = res.track
                 /\ warnings' = res.warnings
    /\ UNCHANGED <<fps, scene, frame, out, kept>>
    /\ UNCHANGED tokenVars

\* load and merge the preview data
ResolvePreview ==
    /\ phase = "idle"
    /\ words' = PreviewStore
    /\ grouping' = PreviewGrouping
    /\ LET res == ResolveGrouping(PreviewStore, PreviewGrouping)
       IN  /\ phase' = IF res.ok THEN "resolved" ELSE "failed"
           /\ track' = res.track
           /\ warnings' = res.warnings
    /\ UNCHANGED <<fps, scene, frame, out, kept>>
    /\ UNCHANGED tokenVars

\* mount the composition at a frame rate of real video
ComposePreview ==
    /\ phase = "resolved"
    /\ phase' = "rendering"
    /\ \E r \in PreviewFps, sc \in Scenes :
          /\ fps' = r
          /\ scene' = sc
    /\ UNCHANGED <<words, grouping, track, warnings, frame, out, kept>>
    /\ UNCHANGED tokenVars

\* mount any revision of the scene at any frame rate
ComposeRevision ==
    /\ phase = "resolved"
    /\ phase' = "rendering"
    /\ \E r \in AllFps, sc \in Revisions :
          /\ fps' = r
          /\ scene' = sc
    /\ UNCHANGED <<words, grouping, track, warnings, frame, out, kept>>
    /\ UNCHANGED tokenVars

\* mount the preview at any frame rate, the lowest included
ComposePreviewAtAnyRate ==
    /\ phase = "resolved"
    /\ phase' = "rendering"
    /\ \E r \in AllFps \cup PreviewFps, sc \in Scenes :
          /\ fps' = r
          /\ scene' = sc
    /\ UNCHANGED <<words, grouping, track, warnings, frame, out, kept>>
    /\ UNCHANGED tokenVars

\* --- the focus store: calls arrive in any order ---

\* what the call finds: whether its key is registered
Called(op, key) ==
    lastCall' = [op |-> op, key |-> key, known |-> key \in DOMAIN store.areas]

\* FocusSystemRoot's ref: the root div is attached or detached
SetRootElement ==
    /\ store.version < MaxVersion
    /\ \E node \in {NullNode, RootNode} :
          /\ store' = setRootElement(store, node)
          /\ lastCall' = [op |-> "setRootElement", key |-> node, known |-> TRUE]
    /\ UNCHANGED <<history, camera, token, captionVars>>

\* useFocusArea's first effect
UpsertDescriptor ==
    /\ store.version < MaxVersion
    /\ \E key \in Keys, descriptor \in Descriptors :
          /\ store' = upsertDescriptor(store, key, descriptor)
          /\ Called("upsertDescriptor", key)
          /\ history' = Remembered(key, [HistoryOf(key) EXCEPT !.upsert = TRUE])
    /\ UNCHANGED <<camera, token, captionVars>>

\* useFocusArea's second effect
UpdateDescriptor ==
    /\ store.version < MaxVersion
    /\ \E key \in Keys, descriptor \in Descriptors :
          /\ store' = updateDescriptor(store, key, descriptor)
          /\ Called("updateDescriptor", key)
          /\ history' = Remembered(key, [HistoryOf(key) EXCEPT !.upsert = TRUE])
    /\ UNCHANGED <<camera, token, captionVars>>

\* the ref callback useFocusArea returns
SetNode ==
    /\ store.version < MaxVersion
    /\ \E key \in Keys, node \in Nodes \cup {NullNode} :
          /\ store' = setNode(store, key, node)
          /\ Called("setNode", key)
          /\ history' = Remembered(key, [HistoryOf(key) EXCEPT !.node = node])
    /\ UNCHANGED <<camera, token, captionVars>>

\* the cleanup of useFocusArea's first effect: the component is gone
RemoveArea ==
    /\ store.version < MaxVersion
    /\ \E key \in Keys :
          /\ store' = removeArea(store, key)
          /\ Called("removeArea", key)
          /\ history' = Remembered(key, NoHistory)
    /\ UNCHANGED <<camera, token, captionVars>>

\* the ResizeObserver of an area's node fires
Resized ==
    /\ store.version < MaxVersion
    /\ \E key \in DOMAIN store.areas :
          /\ store.areas[key].observer
          /\ store' = updateBounds(store, key)
          /\ Called("updateBounds", key)
    /\ UNCHANGED <<history, camera, token, captionVars>>

\* --- the cameras ---

MountCameraView ==
    /\ \E regs \in RegionLists :
          LET computed == CameraView(regs, VideoWidth, VideoHeight)
          IN  camera' = [rig |-> "CameraView", regions |-> regs,
                         x |-> computed.x, y |-> computed.y,
                         scale |-> computed.scale]
    /\ UNCHANGED <<focusVars, token, captionVars>>

MountFocusCameraRig ==
    /\ \E regs \in RegionLists, bounds \in {NullRect, RootClient},
          progress \in ProgressValues :
          LET computed == FocusCameraRig(regs, bounds, progress)
          IN  camera' = [rig |-> "FocusCameraRig", regions |-> regs,
                         cardBounds |-> bounds, focusProgress |-> progress,
                         x |-> computed.x, y |-> computed.y,
                         scale |-> computed.scale]
    /\ UNCHANGED <<focusVars, token, captionVars>>

\* --- PersonalTokenScene: frames are requested in any order ---

RenderToken ==
    /\ \E f \in 0 .. TokenDurationInFrames - 1 :
          token' = [frame |-> f, displaySegment |-> PersonalTokenScene(f)]
    /\ UNCHANGED <<focusVars, camera, captionVars>>

Next == Resolve \/ Compose \/ Render

Spec == Init /\ [][Next]_vars

NextObserved == Resolve \/ Compose \/ RenderObserved

SpecObserved == Init /\ [][NextObserved]_vars

NextEdited == ResolveEdited \/ Compose \/ Render

SpecEdited == Init /\ [][NextEdited]_vars

NextRevisions == Resolve \/ ComposeRevision \/ Render

SpecRevisions == Init /\ [][NextRevisions]_vars

NextPreviewRates == ResolvePreview \/ ComposePreviewAtAnyRate \/ Render

SpecPreviewRates == Init /\ [][NextPreviewRates]_vars

NextPreview == ResolvePreview \/ ComposePreview \/ Render

SpecPreview == Init /\ [][NextPreview]_vars

NextFocus ==
    \/ SetRootElement
    \/ UpsertDescriptor
    \/ UpdateDescriptor
    \/ SetNode
    \/ RemoveArea
    \/ Resized

SpecFocus == Init /\ [][NextFocus]_vars

NextCamera == MountCameraView \/ MountFocusCameraRig

SpecCamera == Init /\ [][NextCamera]_vars

NextSegment == RenderToken

SpecSegment == Init /\ [][NextSegment]_vars

---------------------------------------------------------------------------
(* Properties *)

Rendering == phase = "rendering"
Rendered == phase = "rendering" /\ frame >= 0

\* the line windows of the mounted track
Lines == [i \in 1 .. Len(track) |-> ProcessGroup(track[i], fps)]

DrawnLines == { i \in 1 .. Len(out.lines) : out.lines[i].drawn }

C2_AsStated ==
    Rendered =>
      \A i \in 1 .. Len(track) :
          /\ (frame = Lines[i].startFrame \/ frame = Lines[i].endFrame - 1)
                => out.lines[i].drawn
          /\ frame = Lines[i].endFrame => ~out.lines[i].drawn

\* C2 (amended): every line whose window is not empty (startFrame < endFrame)
\* is drawn at frame = startFrame and at frame = endFrame - 1 and is not
\* drawn at frame = endFrame; a line whose window is empty is drawn at no
\* frame.
C2_BoundaryContainment ==
    Rendered =>
      \A i \in 1 .. Len(track) :
          /\ (/\ Lines[i].startFrame < Lines[i].endFrame
              /\ (frame = Lines[i].startFrame \/ frame = Lines[i].endFrame - 1))
                => out.lines[i].drawn
          /\ frame = Lines[i].endFrame => ~out.lines[i].drawn
          /\ Lines[i].startFrame >= Lines[i].endFrame => ~out.lines[i].drawn

\* the last frame of a window of several frames has been rendered
C2_Witness ==
    /\ Rendered
    /\ \E i \in 1 .. Len(track) :
          /\ Lines[i].startFrame < Lines[i].endFrame - 1
          /\ frame = Lines[i].endFrame - 1
          /\ out.lines[i].drawn

\* the opacity the sweep gives word k (1-based) of a line at frame f
OpacityAt(group, k, f) ==
    WordOpacity(f, group.startFrame, group.enableEffects,
                WordPositionRatio(k - 1, Len(group.words)), group.lineEnd, fps)

Window(group) == group.startFrame .. group.endFrame - 1

ReachesFull(group, k) == \E f \in Window(group) : OpacityAt(group, k, f) = One

\* the first frame of the window at which word k is at opacity 1.0
FirstFull(group, k) ==
    CHOOSE f \in Window(group) :
        /\ OpacityAt(group, k, f) = One
        /\ \A g \in Window(group) : g < f => OpacityAt(group, k, g) # One

\* C3 as stated: on a line shorter than 500 ms every word is drawn at
\* opacity 1.0 and the line sits exactly on the baseline, at every frame of
\* its window.
C3_StaticLine ==
    Rendered =>
      \A i \in DrawnLines :
          ~Lines[i].enableEffects =>
            /\ out.lines[i].top = RInt(BaselineY)
            /\ \A w \in 1 .. Len(out.lines[i].words) :
                  out.lines[i].words[w].opacity = One

Containing(f) ==
    { i \in 1 .. Len(track) :
        Lines[i].startFrame <= f /\ f < Lines[i].endFrame }

\* C5 as stated: when several windows contain the requested frame exactly one
\* line is drawn, the one with the latest startFrame (the last declared of
\* those); never two.
C5_OneLineDrawn ==
    Rendered =>
      (Cardinality(Containing(frame)) > 1 =>
         /\ Cardinality(DrawnLines) = 1
         /\ \A i \in DrawnLines :
               /\ i \in Containing(frame)
               /\ \A j \in Containing(frame) :
                     /\ Lines[j].startFrame <= Lines[i].startFrame
                     /\ Lines[j].startFrame = Lines[i].startFrame => j <= i)

\* consecutive lines do not overlap in time
TimeOrdered ==
    \A i \in 1 .. Len(track) - 1 : Lines[i].lineEnd <= Lines[i + 1].lineStart

\* C6: when consecutive lines do not overlap in time, their frame windows do
\* not overlap either (endFrame[i] <= startFrame[i+1]) and no frame lies in
\* two windows, so no render draws two lines.
C6_WindowsDisjoint ==
    (Rendering /\ TimeOrdered) =>
      /\ \A i \in 1 .. Len(track) - 1 :
            Lines[i].endFrame <= Lines[i + 1].startFrame
      /\ \A f \in 0 .. DurationInFrames(track, fps) :
            Cardinality(Containing(f)) <= 1
      /\ frame >= 0 => Cardinality(DrawnLines) <= 1

\* two lines that touch in time, rendered at the frame where the first ends
\* and the second starts: only the second is drawn
C6_Witness ==
    /\ Rendered
    /\ TimeOrdered
    /\ \E i \in 1 .. Len(track) - 1 :
          /\ Lines[i].lineEnd = Lines[i + 1].lineStart
          /\ Lines[i].startFrame < Lines[i].endFrame
          /\ frame = Lines[i].endFrame
          /\ DrawnLines = {i + 1}

\* a grouping with an index outside [0, number of words), with indices that
\* are not strictly increasing inside a group, or with an empty group
Defective(w, gs) ==
    \E i \in 1 .. Len(gs) :
        \/ gs[i].indices = <<>>
        \/ \E k \in 1 .. Len(gs[i].indices) :
              \/ gs[i].indices[k] < 0
              \/ gs[i].indices[k] >= Len(w)
        \/ \E k \in 2 .. Len(gs[i].indices) :
              gs[i].indices[k - 1] >= gs[i].indices[k]

Resolved == phase \in {"resolved", "rendering"}

\* C7: resolve fails with InvalidGrouping exactly when some group holds an
\* index outside [0, words.length) (negative ones included), is not strictly
\* increasing, or is empty; every other grouping resolves.
C7_InvalidGroupingRejected ==
    phase # "idle" => (phase = "failed" <=> Defective(words, grouping))

\* a grouping whose only defect is a negative index has been rejected
C7_Witness ==
    /\ phase = "failed"
    /\ \E i \in 1 .. Len(grouping) :
          \E k \in 1 .. Len(grouping[i].indices) : grouping[i].indices[k] < 0
    /\ \A i \in 1 .. Len(grouping) :
          /\ grouping[i].indices # <<>>
          /\ \A k \in 1 .. Len(grouping[i].indices) :
                /\ grouping[i].indices[k] < Len(words)
                /\ k > 1 => grouping[i].indices[k - 1] < grouping[i].indices[k]

\* C8: an invalid grouping is reported before any frame is rendered: the
\* pipeline stops at the resolver, no track is built, not even from the
\* groups that precede the invalid one, and no frame is ever rendered.
C8_NoRenderFromInvalid ==
    (phase # "idle" /\ Defective(words, grouping)) =>
      /\ phase = "failed"
      /\ track = <<>>
      /\ frame = -1
      /\ out = Blank

\* a grouping whose first group is valid and whose second is not has been
\* rejected, and nothing of it is in the track
C8_Witness ==
    /\ phase = "failed"
    /\ Len(grouping) > 1
    /\ ~Defective(words, <<grouping[1]>>)
    /\ Defective(words, <<grouping[2]>>)
    /\ track = <<>>

\* two groups of a grouping without defects whose time windows overlap
TimeOverlap(w, gs) ==
    /\ ~Defective(w, gs)
    /\ \E i, j \in 1 .. Len(gs) :
          /\ i < j
          /\ w[gs[i].indices[1] + 1].start
                < w[gs[j].indices[Len(gs[j].indices)] + 1].end
          /\ w[gs[j].indices[1] + 1].start
                < w[gs[i].indices[Len(gs[i].indices)] + 1].end

\* C9: overlap between two groups' time windows is never fatal: the resolver
\* returns the whole track with an OverlapWarning, and every render of such a
\* track completes.
C9_OverlapNotFatal ==
    (phase # "idle" /\ TimeOverlap(words, grouping)) =>
      /\ Resolved
      /\ Len(track) = Len(grouping)
      /\ \A i \in 1 .. Len(grouping) :
            /\ Len(track[i]) = Len(grouping[i].indices)
            /\ \A k \in 1 .. Len(track[i]) :
                  track[i][k] = words[grouping[i].indices[k] + 1]
      /\ \E d \in warnings : d.kind = "OverlapWarning"
      /\ out.error = "none"
      /\ frame >= 0 => Len(out.lines) = Len(track)

\* a frame that lies in the windows of two overlapping lines has been rendered
C9_Witness ==
    /\ Rendered
    /\ TimeOverlap(words, grouping)
    /\ Cardinality(Containing(frame)) > 1
    /\ out.error = "none"

\* C10: when no window contains the requested frame, which is every frame of a
\* track without groups, the render draws nothing and raises no error.
C10_NothingToDraw ==
    (Rendered /\ Containing(frame) = {}) =>
      /\ out.error = "none"
      /\ DrawnLines = {}

\* a frame of a track without groups has been rendered
C10_Witness ==
    /\ Rendered
    /\ track = <<>>
    /\ out = Blank

\* a frame in the gap between two lines has been rendered
C10_GapRendered ==
    /\ Rendered
    /\ Len(track) > 1
    /\ Containing(frame) = {}
    /\ \E i, j \in 1 .. Len(track) :
          Lines[i].endFrame <= frame /\ frame < Lines[j].startFrame

\* the grouping file with the indices of gs and the generated previews
Regenerated(gs) ==
    [i \in 1 .. Len(gs) |-> [indices |-> gs[i].indices, text |-> 0]]

\* C11: the output depends on a grouping's indices only: every grouping
\* resolves to the result, the track and the warnings of the grouping that
\* has its indices and the generated text values, and renders the requested
\* frame as that one does; so any two groupings with identical indices and
\* different text values resolve and render identically.
C11_TextIgnored ==
    phase # "idle" =>
      LET res == ResolveGrouping(words, Regenerated(grouping))
      IN  /\ res.ok = (phase # "failed")
          /\ res.track = track
          /\ res.warnings = warnings
          /\ Rendered => RenderFrame(scene, res.track, fps, frame) = out

\* a frame with a line on it, rendered from a file with an edited preview
C11_Witness ==
    /\ Rendered
    /\ DrawnLines # {}
    /\ \E i \in 1 .. Len(grouping) : grouping[i].text = 1

\* the position in the word list w of a resolved word, counted from 0
IndexOf(w, x) == (CHOOSE j \in 1 .. Len(w) : w[j] = x) - 1

\* the resolved groups written back as lists of indices
Reserialize(w, groups) ==
    [i \in 1 .. Len(groups) |->
        [k \in 1 .. Len(groups[i]) |-> IndexOf(w, groups[i][k])]]

IndicesOf(gs) == [i \in 1 .. Len(gs) |-> gs[i].indices]

\* the grouping [[0], [1, 2]] over the three words of the first preview line
ExampleGrouping ==
    << [indices |-> <<0>>, text |-> 0], [indices |-> <<1, 2>>, text |-> 0] >>

\* C12: a valid grouping resolves to one word group per entry, in the order
\* of the entries, holding words[i] for the entry's indices i in their order,
\* and writing the resolved words back as indices gives the grouping's
\* indices again; [[0], [1, 2]] over three words gives two groups, the first
\* word alone and then the other two, and round-trips to [[0], [1, 2]].
C12_ResolveRoundTrip ==
    /\ LET res == ResolveGrouping(PreviewWords, ExampleGrouping)
       IN  /\ res.ok
           /\ res.track = << <<PreviewWords[1]>>,
                             <<PreviewWords[2], PreviewWords[3]>> >>
           /\ Reserialize(PreviewWords, res.track) = << <<0>>, <<1, 2>> >>
    /\ (phase # "idle" /\ ~Defective(words, grouping)) =>
          /\ Resolved
          /\ Len(track) = Len(grouping)
          /\ \A i \in 1 .. Len(grouping) :
                /\ Len(track[i]) = Len(grouping[i].indices)
                /\ \A k \in 1 .. Len(track[i]) :
                      track[i][k] = words[grouping[i].indices[k] + 1]
          /\ Reserialize(words, track) = IndicesOf(grouping)

\* a grouping of two groups that name different words, the later word first,
\* has been resolved
C12_Witness ==
    /\ Resolved
    /\ Len(grouping) = 2
    /\ grouping[1].indices = <<1>>
    /\ grouping[2].indices = <<0>>
    /\ track = << <<words[2]>>, <<words[1]>> >>

\* n is the integer part of seconds * fps: n <= seconds * fps < n + 1
IsFloorOf(n, ms, r) == n * 1000 <= ms * r /\ ms * r < (n + 1) * 1000

\* C13: for every line and every fps, startFrame is floor(startSec * fps) and
\* endFrame is floor(endSec * fps), startSec being the start of the line's
\* first word and endSec the end of its last word; the products are
\* truncated, never rounded, and a line is drawn exactly at the frames from
\* the one to before the other.
C13_WindowIsFloored ==
    Rendered =>
      \A i \in 1 .. Len(track) :
          LET startMs == track[i][1].start
              endMs == track[i][Len(track[i])].end
          IN  /\ IsFloorOf(Lines[i].startFrame, startMs, fps)
              /\ IsFloorOf(Lines[i].endFrame, endMs, fps)
              /\ out.lines[i].drawn <=>
                    /\ startMs * fps < (frame + 1) * 1000
                    /\ (frame + 1) * 1000 <= endMs * fps

\* a line is drawn whose start and end, in frames, both have a fraction of
\* a half or more, which rounding would take to the next frame
C13_Witness ==
    /\ Rendered
    /\ \E i \in DrawnLines :
          /\ (track[i][1].start * fps) % 1000 >= 500
          /\ (track[i][Len(track[i])].end * fps) % 1000 >= 500

\* the line is drawn with this opacity on each of its words
AllWordsAt(line, opacity) ==
    \A k \in 1 .. Len(line.words) : line.words[k].opacity = opacity

\* C14: a line is effect-eligible exactly when (endSec - startSec) * 1000 is
\* 500 or more: such a line, one of exactly 500 ms included, gets the karaoke
\* sweep and the drop-in, so at its first frame it is 6 px above the baseline
\* with every word still unlit; a shorter line gets neither, it is on the
\* baseline with every word at full opacity at every frame.
C14_EffectThreshold ==
    Rendered =>
      \A i \in DrawnLines :
          IF LineDurationMs(track[i]) >= 500
          THEN frame = Lines[i].startFrame =>
                 /\ out.lines[i].top = RInt(BaselineY - DROP_DISTANCE)
                 /\ AllWordsAt(out.lines[i], UNREACHED_OPACITY)
          ELSE /\ out.lines[i].top = RInt(BaselineY)
               /\ AllWordsAt(out.lines[i], One)

\* C14, the half about the sweep alone: a line of 500 ms or more starts with
\* every word unlit and a shorter line is at full opacity at every frame.
C14_SweepThreshold ==
    Rendered =>
      \A i \in DrawnLines :
          IF LineDurationMs(track[i]) >= 500
          THEN frame = Lines[i].startFrame =>
                 AllWordsAt(out.lines[i], UNREACHED_OPACITY)
          ELSE AllWordsAt(out.lines[i], One)

\* C14 holds in the revision that ties the drop-in to enableEffects
C14_InPart010 == scene = "part_010" => C14_EffectThreshold

\* the distance of word k of line i from the light at the rendered frame,
\* with lightPosition = -0.7 + 2.4 * timeProgress
DistanceAt(i, k) ==
    LET timeProgress ==
          TimeProgress(frame, Lines[i].startFrame, Lines[i].lineEnd, fps)
        lightPosition == RAdd(R(-7, 10), RMul(R(24, 10), timeProgress))
    IN  RSub(WordPositionRatio(k - 1, Len(track[i])), lightPosition)

\* 1.0 up to distance 0, then down a straight line to 0.35 at distance 0.7,
\* and 0.35 beyond
FadeOpacity(distance) ==
    IF RLe(distance, Zero) THEN One
    ELSE IF RLe(distance, R(7, 10))
    THEN RSub(One, RMul(RDiv(distance, R(7, 10)), R(65, 100)))
    ELSE R(35, 100)

C15_Unreached ==
    /\ Rendered
    /\ \E i \in DrawnLines :
          /\ Lines[i].enableEffects
          /\ \E k \in 1 .. Len(track[i]) :
                /\ RLt(R(7, 10), DistanceAt(i, k))
                /\ out.lines[i].words[k].opacity = R(35, 100)

\* clamp(x, 0, 1)
Clamp01(x) == IF RLt(x, Zero) THEN Zero ELSE IF RLt(One, x) THEN One ELSE x

\* clamp((frame / fps - startSec) / (endSec - startSec), 0, 1)
ProgressFromSeconds(f, startMs, endMs, r) ==
    Clamp01(RDiv(RSub(R(f, r), R(startMs, 1000)),
                 RSub(R(endMs, 1000), R(startMs, 1000))))

\* clamp((frame - startFrame) / (endSec * fps - startFrame), 0, 1)
ProgressFromStartFrame(f, startFrame, endMs, r) ==
    Clamp01(RDiv(RInt(f - startFrame),
                 RSub(R(endMs * r, 1000), RInt(startFrame))))

\* C16: at every frame of an effect-eligible line's window the sweep's
\* timeProgress is clamp((frame / fps - startSec) / (endSec - startSec), 0, 1),
\* startSec being the start of the line's first word and endSec the end of
\* its last word, in seconds.
C16_ProgressFromSeconds ==
    Rendered =>
      \A i \in DrawnLines :
          Lines[i].enableEffects =>
            TimeProgress(frame, Lines[i].startFrame, Lines[i].lineEnd, fps)
              = ProgressFromSeconds(frame, Lines[i].lineStart,
                                    Lines[i].lineEnd, fps)

\* C16, as the sweep is computed: the progress is counted from the line's
\* first frame, startFrame / fps, in place of startSec.
C16_ProgressFromStartFrame ==
    Rendered =>
      \A i \in DrawnLines :
          Lines[i].enableEffects =>
            TimeProgress(frame, Lines[i].startFrame, Lines[i].lineEnd, fps)
              = ProgressFromStartFrame(frame, Lines[i].startFrame,
                                       Lines[i].lineEnd, fps)

\* the vertical offset of drawn line i from the baseline, negative above it
OffsetOf(lines, i) == RSub(lines[i].top, RInt(BaselineY))

\* -6 * (1 - easeOutCubic(p)), p = clamp((frame - startFrame) /
\* floor(0.4 * fps), 0, 1)
DropOffset(f, startFrame, r) ==
    LET p == Clamp01(R(f - startFrame, Floor(4 * r, 10)))
        u == RSub(One, p)
        eased == RSub(One, RMul(u, RMul(u, u)))
    IN  RMul(RInt(-6), RSub(One, eased))

\* C17: the vertical offset of an effect-eligible line is
\* -6 * (1 - easeOutCubic(p)) px, p = clamp((frame - startFrame) /
\* floor(0.4 * fps), 0, 1): 6 px above the baseline at frame = startFrame and
\* exactly on the baseline from frame startFrame + floor(0.4 * fps) on.
C17_DropOffset ==
    Rendered =>
      \A i \in DrawnLines :
          Lines[i].enableEffects =>
            /\ OffsetOf(out.lines, i)
                  = DropOffset(frame, Lines[i].startFrame, fps)
            /\ frame = Lines[i].startFrame =>
                  OffsetOf(out.lines, i) = RInt(-6)
            /\ frame >= Lines[i].startFrame + Floor(4 * fps, 10) =>
                  OffsetOf(out.lines, i) = Zero

\* C17 holds in the two revisions that have a drop-in
C17_InDropRevisions == scene \in {"part_010", "part_011"} => C17_DropOffset

\* line i of the track at frame f, in the mounted scene
LineAt(groups, i, f) == RenderFrame(scene, groups, fps, f).lines[i]

GreatIdeasChange ==
    /\ Rendered
    /\ fps = 30
    /\ Len(track) > 0
    /\ track[1] = PreviewWords

\* the sweep of the first line at the rendered frame, as Word computes it
ProgressOfFirst ==
    TimeProgress(frame, Lines[1].startFrame, Lines[1].lineEnd, fps)

LightOfFirst == LightPosition(ProgressOfFirst)

\* distanceFromLight of word k (from 1) of the first line
DistanceOfFirst(k) ==
    RSub(WordPositionRatio(k - 1, Len(track[1])), LightOfFirst)

\* x is num / 1000 to within one thousandth
About(x, num) == RLe(RAbs(RSub(x, R(num, 1000))), R(1, 1000))

C20_AsStated ==
    (GreatIdeasChange /\ frame = 30) =>
      /\ About(ProgressOfFirst, 967)
      /\ About(LightOfFirst, 950)
      /\ About(RAbs(DistanceOfFirst(3)), 117)
      /\ RLe(RAbs(DistanceOfFirst(3)), LIGHT_WIDTH)
      /\ RLe(R(9, 10), out.lines[1].words[3].opacity)

\* C20 (amended): in the same scenario at frame 30, timeProgress is 130/139,
\* about 0.935, lightPosition is about 1.545, the word change (ratio 5/6) is
\* at distance about -0.711: the light has passed it by more than its width,
\* the word is outside the band and its opacity is exactly 1.0.
C20_ChangeAtFrame30 ==
    (GreatIdeasChange /\ frame = 30) =>
      /\ out.lines[1].drawn
      /\ ProgressOfFirst = R(130, 139)
      /\ About(ProgressOfFirst, 935)
      /\ About(LightOfFirst, 1545)
      /\ WordPositionRatio(2, 3) = R(5, 6)
      /\ About(DistanceOfFirst(3), -711)
      /\ RLt(DistanceOfFirst(3), RNeg(LIGHT_WIDTH))
      /\ out.lines[1].words[3].word = 2
      /\ out.lines[1].words[3].opacity = One

\* frame 30, the last frame of the line, has been rendered at 30 fps
C20_Witness ==
    /\ GreatIdeasChange
    /\ frame = 30
    /\ out.lines[1].drawn

\* C22: on an effect-eligible line a word's opacity never decreases from a
\* frame of the window to a later one: a word that has reached opacity 1.0
\* is at 1.0 at every later frame of the line.
C22_OpacityNeverDecreases ==
    Rendered =>
      \A i \in DrawnLines :
          Lines[i].enableEffects =>
            \A f \in frame + 1 .. Lines[i].endFrame - 1 :
                \A k \in 1 .. Len(track[i]) :
                    /\ RLe(out.lines[i].words[k].opacity,
                           LineAt(track, i, f).words[k].opacity)
                    /\ out.lines[i].words[k].opacity = One =>
                          LineAt(track, i, f).words[k].opacity = One

\* C22 holds in the revisions that mount the light sweep
C22_InSweepRevisions == scene \in Scenes => C22_OpacityNeverDecreases

\* C23: for every effect-eligible line and every fps the sweep completes
\* inside the window: there is a frame of the window, endFrame - 1 at the
\* latest, at which every word of the line is at opacity 1.0.
C23_SweepCompletes ==
    (Rendering /\ scene \in Scenes) =>
      \A i \in 1 .. Len(track) :
          Lines[i].enableEffects =>
            /\ Lines[i].startFrame < Lines[i].endFrame
            /\ AllWordsAt(LineAt(track, i, Lines[i].endFrame - 1), One)

\* C23 (amended): for every effect-eligible line whose window has six frames
\* or more the sweep completes inside the window: at endFrame - 1 every word
\* of the line is at opacity 1.0. On a shorter window, which takes a frame
\* rate under 12 fps, the line can end with its last words still dimmed.
C23_SweepCompletesInSixFrames ==
    (Rendering /\ scene \in Scenes) =>
      \A i \in 1 .. Len(track) :
          (/\ Lines[i].enableEffects
           /\ Lines[i].endFrame - Lines[i].startFrame >= 6) =>
              AllWordsAt(LineAt(track, i, Lines[i].endFrame - 1), One)

\* the last frame of an effect-eligible line of six frames has been rendered,
\* with the light on the line's last word at the frame before
C23_Witness ==
    /\ Rendered
    /\ \E i \in DrawnLines :
          /\ Lines[i].enableEffects
          /\ Lines[i].endFrame - Lines[i].startFrame = 6
          /\ frame = Lines[i].endFrame - 1
          /\ AllWordsAt(out.lines[i], One)
          /\ ~AllWordsAt(LineAt(track, i, frame - 1), One)

\* C24: for every line, word and frame, in every revision and at every
\* frame rate, the word's opacity lies within [0.35, 1.0].
C24_OpacityInRange ==
    Rendered =>
      \A i \in DrawnLines :
          \A k \in 1 .. Len(out.lines[i].words) :
              /\ ~IsNaN(out.lines[i].words[k].opacity)
              /\ out.lines[i].words[k].opacity[2] > 0
              /\ RLe(R(35, 100), out.lines[i].words[k].opacity)
              /\ RLe(out.lines[i].words[k].opacity, One)

\* a frame on which one word is at the lower end of the range and another
\* strictly inside it
C24_Witness ==
    /\ Rendered
    /\ \E i \in DrawnLines :
          /\ \E k \in 1 .. Len(out.lines[i].words) :
                out.lines[i].words[k].opacity = R(35, 100)
          /\ \E k \in 1 .. Len(out.lines[i].words) :
                /\ RLt(R(35, 100), out.lines[i].words[k].opacity)
                /\ RLt(out.lines[i].words[k].opacity, One)

\* C25 as stated: every line that holds a word, so that startSec < endSec,
\* has a frame window that is not empty, startFrame < endFrame, and is drawn
\* on at least one frame.
C25_AsStated ==
    Rendering =>
      \A i \in 1 .. Len(track) :
          /\ Lines[i].startFrame < Lines[i].endFrame
          /\ LineAt(track, i, Lines[i].startFrame).drawn

\* C25 (amended): every line that lasts one frame or longer,
\* endSec - startSec >= 1 / fps, has a frame window that is not empty and is
\* drawn at its startFrame; a shorter line may have an empty window and is
\* then drawn on no frame.
C25_WindowNotEmpty ==
    Rendering =>
      \A i \in 1 .. Len(track) :
          /\ LineDurationMs(track[i]) * fps >= 1000 =>
                /\ Lines[i].startFrame < Lines[i].endFrame
                /\ LineAt(track, i, Lines[i].startFrame).drawn
          /\ Lines[i].startFrame >= Lines[i].endFrame =>
                \A f \in 0 .. DurationInFrames(track, fps) - 1 :
                    ~LineAt(track, i, f).drawn

\* a line that lasts one frame and no more is drawn at its only frame
C25_Witness ==
    /\ Rendered
    /\ \E i \in DrawnLines :
          /\ LineDurationMs(track[i]) * fps >= 1000
          /\ LineDurationMs(track[i]) * fps < 2000
          /\ Lines[i].startFrame + 1 = Lines[i].endFrame
          /\ frame = Lines[i].startFrame

\* C26: whenever a line is drawn at a frame, the frame's time is within one
\* frame of the spoken interval, startSec - 1 / fps < frame / fps < endSec:
\* the line is never shown at or after the time its last word ends.
C26_DrawnNearSpeech ==
    Rendered =>
      \A i \in DrawnLines :
          /\ track[i][1].start * fps - 1000 < frame * 1000
          /\ frame * 1000 < track[i][Len(track[i])].end * fps

\* a line is drawn at a frame whose time is before the line's first word
\* starts, inside the frame of tolerance
C26_Witness ==
    /\ Rendered
    /\ \E i \in DrawnLines :
          /\ frame * 1000 < track[i][1].start * fps
          /\ frame > 0

\* C27: at every fps > 0, for every effect-eligible line and every frame of
\* its window, the drop-in offset is a defined number within [-6, 0]; the
\* animation length floor(0.4 * fps), the divisor of the progress, is not 0.
C27_DropOffsetDefined ==
    (Rendered /\ scene \in {"part_010", "part_011"}) =>
      \A i \in DrawnLines :
          Lines[i].enableEffects =>
            /\ AnimationDurationFrames(fps) # 0
            /\ ~IsNaN(out.lines[i].top)
            /\ RLe(RInt(-6), OffsetOf(out.lines, i))
            /\ RLe(OffsetOf(out.lines, i), Zero)

\* C27 holds from 3 fps on, where floor(0.4 * fps) is 1 or more
C27_FromThreeFps == fps >= 3 => C27_DropOffsetDefined

---------------------------------------------------------------------------
(* The cameras, the focus store and the segment switch *)

\* C21: the camera recentres only on a single region.  With no region or
\* with two or more the translation is (0, 0); with exactly one region
\* CameraView's target, and FocusCameraRig's translation at full progress
\* inside a measured card, put the centre of the region on the centre of
\* the frame.
C21_CameraRecenters ==
    /\ camera.rig = "CameraView" =>
          IF Len(camera.regions) = 1
          THEN /\ RAdd(CenterX(camera.regions[1]), camera.x) = R(VideoWidth, 2)
               /\ RAdd(CenterY(camera.regions[1]), camera.y) = R(VideoHeight, 2)
          ELSE camera.x = Zero /\ camera.y = Zero
    /\ camera.rig = "FocusCameraRig" =>
          IF Len(camera.regions) = 1
          THEN (camera.cardBounds # NullRect /\ camera.focusProgress = One) =>
                  /\ RAdd(CenterX(camera.regions[1]), camera.x)
                        = R(camera.cardBounds.width, 2)
                  /\ RAdd(CenterY(camera.regions[1]), camera.y)
                        = R(camera.cardBounds.height, 2)
          ELSE camera.x = Zero /\ camera.y = Zero

\* a single region off the centre of the video, and the camera moved
C21_Witness ==
    /\ camera.rig = "CameraView"
    /\ Len(camera.regions) = 1
    /\ camera.x # Zero
    /\ camera.y # Zero

\* several regions, and the rig at rest
C21_SeveralRegions ==
    ~(/\ camera.rig = "FocusCameraRig"
      /\ Len(camera.regions) >= 2
      /\ camera.focusProgress = One
      /\ camera.cardBounds # NullRect)

\* C28: registration does not depend on the order of the calls.  Once a
\* component has attached a node (setNode) and registered its descriptor
\* (upsertDescriptor), in either order, the store holds that node for the
\* area and has measured bounds for it.
C28_OrderIndependent ==
    \A k \in Keys :
        (HistoryOf(k).upsert /\ HistoryOf(k).node # NullNode) =>
            /\ k \in DOMAIN store.areas
            /\ store.areas[k].node = HistoryOf(k).node
            /\ (store.rootElement # NullNode =>
                   store.areas[k].bounds # NullRect)

\* what does hold: a node the store holds is the node the component attached
\* last, after it had registered, and only an area with a node has bounds
C28_HeldNodeWasAttached ==
    \A k \in DOMAIN store.areas :
        /\ store.areas[k].node # NullNode =>
              HistoryOf(k).upsert /\ HistoryOf(k).node = store.areas[k].node
        /\ store.areas[k].bounds # NullRect => store.areas[k].node # NullNode

\* C29: setNode and removeArea with a key that is not registered change
\* nothing: the areas, their nodes and bounds, the root and the version stay
\* as they are and the listener is not called.
C29_UnknownKeyIsNoOp ==
    [][(lastCall'.op \in {"setNode", "removeArea"} /\ ~lastCall'.known)
         => store' = store]_vars

\* setNode with an unregistered key on a store that holds a measured area
C29_Witness ==
    /\ lastCall.op = "setNode"
    /\ ~lastCall.known
    /\ store.version > 0
    /\ \E k \in DOMAIN store.areas : store.areas[k].bounds # NullRect

\* removeArea with an unregistered key on such a store
C29_RemoveUnknown ==
    ~(/\ lastCall.op = "removeArea"
      /\ ~lastCall.known
      /\ \E k \in DOMAIN store.areas : store.areas[k].bounds # NullRect)

C30_AtHalf ==
    ~(/\ interpolateSegmentSwitch(token.frame) = R(1, 2)
      /\ token.displaySegment = Holdings)

====
